---- MODULE Spec2Model ----
(***************************************************************************)
(* A model of app.py of citationManager: the name normalisation            *)
(* (process_given_name, fetch_paper_data_csl), the citation post-processor *)
(* (process_csl) and the batch orchestrator (generate).                    *)
(*                                                                         *)
(* Strings are sequences of one-character strings.  The four markup tags   *)
(* the post-processor's patterns name are kept as single tokens (LM, ED,   *)
(* IO, IC); a tag token is no digit, letter, word character or whitespace, *)
(* begins with '<' and ends with '>'.  Fixed pieces of message text        *)
(* (MsgFmtErr, ...) are single tokens too.                                 *)
(***************************************************************************)
EXTENDS Integers, Sequences, FiniteSets, TLC

VARIABLES
    input_lines,        \* generate: input_text.splitlines()
    sort_alphabetically,\* generate: request flag
    style_name,         \* generate: request style
    pc,                 \* generate: position in the handler
    line_idx,           \* generate: index of the next input line (first loop)
    citation_data,      \* generate: list of entries
    item_idx,           \* generate: index of the next entry (second loop)
    citation_number,    \* generate: the display counter
    results,            \* generate: list of rendered fragments
    unsorted,           \* history: citation_data as the first loop built it
    calls,              \* history: the entry and target number of each process_csl call
    last_call,          \* history: how the latest process_csl call ended
    csl_files,          \* the style names present in CSL_DIR
    arg,                \* pure-function specifications: the input
    ret,                \* pure-function specifications: the output
    done                \* pure-function specifications: the call has returned

vars == <<input_lines, sort_alphabetically, style_name, pc, line_idx,
          citation_data, item_idx, citation_number, results, unsorted, calls,
          last_call, csl_files, arg, ret, done>>

genVars == <<input_lines, sort_alphabetically, style_name, pc, line_idx,
             citation_data, item_idx, citation_number, results, unsorted, calls,
             last_call, csl_files>>

fnVars == <<arg, ret, done>>

(***************************************************************************)
(* Characters                                                              *)
(***************************************************************************)
UpperSeq == <<"A","B","C","D","E","F","G","H","I","J","K","L","M",
              "N","O","P","Q","R","S","T","U","V","W","X","Y","Z">>

LowerSeq == <<"a","b","c","d","e","f","g","h","i","j","k","l","m",
              "n","o","p","q","r","s","t","u","v","w","x","y","z">>

DigitSeq == <<"0","1","2","3","4","5","6","7","8","9">>

Range(f) == {f[i] : i \in DOMAIN f}

UpperChars == Range(UpperSeq)
LowerChars == Range(LowerSeq)
DigitChars == Range(DigitSeq)

TAB == "\t"
NL == "\n"
SP == " "

\* the markup tokens
LM == "<div class=\"csl-left-margin\">"
ED == "</div>"
IO == "<i>"
IC == "</i>"
NBSP == "&nbsp;"

TagTokens == {LM, ED, IO, IC, "<b>", "</b>"}

IsDigit(c) == c \in DigitChars
IsUpper(c) == c \in UpperChars
IsLower(c) == c \in LowerChars
IsLetter(c) == c \in UpperChars \cup LowerChars
IsSpace(c) == c \in {SP, TAB, NL}
IsWord(c) == IsLetter(c) \/ IsDigit(c) \/ c = "_"
EndsGT(c) == c \in TagTokens \/ c = ">"

IndexIn(seq, c) == CHOOSE i \in DOMAIN seq : seq[i] = c

\* str.lower() on one character
LowerChar(c) == IF IsUpper(c) THEN LowerSeq[IndexIn(UpperSeq, c)] ELSE c

\* str.lower()
Lower(s) == [i \in DOMAIN s |-> LowerChar(s[i])]

\* the code point order of the characters that occur in names
CharOrder == <<SP, "'", "-", ".", "/">> \o DigitSeq \o UpperSeq \o <<"_">> \o LowerSeq

Ord(c) == IndexIn(CharOrder, c)

\* Python's s < t on strings: lexicographic by code point
RECURSIVE StrLess(_, _)
StrLess(s, t) ==
    IF t = <<>> THEN FALSE
    ELSE IF s = <<>> THEN TRUE
    ELSE IF s[1] # t[1] THEN Ord(s[1]) < Ord(t[1])
    ELSE StrLess(Tail(s), Tail(t))

(***************************************************************************)
(* String helpers                                                          *)
(***************************************************************************)
\* s[i:] with a 1-based i
From(s, i) == SubSeq(s, i, Len(s))

\* pat occurs in s at 1-based position i
MatchAt(s, pat, i) ==
    /\ i >= 1
    /\ i + Len(pat) - 1 <= Len(s)
    /\ \A j \in 1..Len(pat) : s[i + j - 1] = pat[j]

\* `pat in s`
Contains(s, pat) == \E i \in 1..(Len(s) + 1) : MatchAt(s, pat, i)

\* s.find(pat, start): 1-based position of the first occurrence at or after
\* start, 0 when there is none
Find(s, pat, start) ==
    LET hits == {i \in start..(Len(s) + 1) : MatchAt(s, pat, i)}
    IN IF hits = {} THEN 0 ELSE CHOOSE i \in hits : \A j \in hits : i <= j

\* s.rfind(pat): 1-based position of the last occurrence, 0 when none
RFind(s, pat) ==
    LET hits == {i \in 1..(Len(s) + 1) : MatchAt(s, pat, i)}
    IN IF hits = {} THEN 0 ELSE CHOOSE i \in hits : \A j \in hits : i >= j

\* ' '.join(parts)
RECURSIVE Join(_, _)
Join(parts, sep) ==
    IF parts = <<>> THEN <<>>
    ELSE IF Len(parts) = 1 THEN parts[1]
    ELSE parts[1] \o sep \o Join(Tail(parts), sep)

\* s.split(sep) for a one-character separator: empty fields are kept
RECURSIVE SplitOn(_, _)
SplitOn(s, sep) ==
    LET k == Find(s, <<sep>>, 1)
    IN IF k = 0 THEN <<s>>
       ELSE <<SubSeq(s, 1, k - 1)>> \o SplitOn(From(s, k + 1), sep)

\* s.split(): fields are maximal runs of non-whitespace, none empty
RECURSIVE SplitWs(_)
SplitWs(s) ==
    IF s = <<>> THEN <<>>
    ELSE IF IsSpace(s[1]) THEN SplitWs(Tail(s))
    ELSE LET ends == {i \in 1..Len(s) : IsSpace(s[i])}
             e == IF ends = {} THEN Len(s) + 1
                  ELSE CHOOSE i \in ends : \A j \in ends : i <= j
         IN <<SubSeq(s, 1, e - 1)>> \o SplitWs(From(s, e))

\* s.lstrip(), s.rstrip(), s.strip()
RECURSIVE LStrip(_)
LStrip(s) == IF s # <<>> /\ IsSpace(s[1]) THEN LStrip(Tail(s)) ELSE s

RECURSIVE RStrip(_)
RStrip(s) ==
    IF s # <<>> /\ IsSpace(s[Len(s)]) THEN RStrip(SubSeq(s, 1, Len(s) - 1)) ELSE s

Strip(s) == RStrip(LStrip(s))

\* str(n) for n >= 0
RECURSIVE Str(_)
Str(n) == IF n < 10 THEN <<DigitSeq[n + 1]>>
          ELSE Str(n \div 10) \o <<DigitSeq[(n % 10) + 1]>>

(***************************************************************************)
(* process_given_name                                                      *)
(***************************************************************************)
\* part.isupper() and part.isalpha(), for the characters of this model
IsUpperAlpha(part) == part # <<>> /\ \A i \in DOMAIN part : IsUpper(part[i])

\* '. '.join(list(part)) + '.'
Initials(part) == Join([i \in DOMAIN part |-> <<part[i]>>], <<".", SP>>) \o <<".">>

\* one iteration of the loop over parts
GivenStep(st, part) ==
    IF IsLower(part[1]) THEN [st EXCEPT !.parts = Append(@, part)]
    ELSE IF IsUpperAlpha(part) THEN
        LET n == Len(st.parts)
            addComma == ~st.comma_inserted /\ n > 0
            withComma == IF addComma
                         THEN [st.parts EXCEPT ![n] = @ \o <<",">>]
                         ELSE st.parts
        IN [parts |-> Append(withComma, Initials(part)),
            comma_inserted |-> st.comma_inserted \/ addComma]
    ELSE [st EXCEPT !.parts = Append(@, part)]

RECURSIVE GivenLoop(_, _)
GivenLoop(st, parts) ==
    IF parts = <<>> THEN st
    ELSE GivenLoop(GivenStep(st, Head(parts)), Tail(parts))

process_given_name(given_name) ==
    IF given_name = <<>> THEN <<>>
    ELSE Join(GivenLoop([parts |-> <<>>, comma_inserted |-> FALSE],
                        SplitWs(given_name)).parts, <<SP>>)

(***************************************************************************)
(* fetch_paper_data_csl: the author loops of the three branches            *)
(***************************************************************************)
\* an author entry of the CSL-JSON record; has_ndp tells whether the
\* "non-dropping-particle" key is present
Person(family, given) ==
    [family |-> family, given |-> given, has_ndp |-> FALSE, ndp |-> <<>>]

PersonNdp(family, given, ndp) ==
    [family |-> family, given |-> given, has_ndp |-> TRUE, ndp |-> ndp]

\* part and part[0].isupper()
StartsUpper(part) == part # <<>> /\ IsUpper(part[1])

\* the pubmed branch, one author_name that passed `if not author_name`
\* (the result is the list of entries appended: one or none)
PubmedAuthor(author_name) ==
    LET parts == SplitOn(author_name, SP)
        n == Len(parts)
        ups == {i \in 1..n : StartsUpper(parts[i])}
    IN IF n >= 2 THEN
           IF ups # {} THEN
               LET i == CHOOSE k \in ups : \A j \in ups : k <= j
                   family == parts[i]
                   given == Join(SubSeq(parts, i + 1, n), <<SP>>)
               IN IF i > 1
                  THEN <<PersonNdp(family, process_given_name(given),
                                   Join(SubSeq(parts, 1, i - 1), <<SP>>))>>
                  ELSE <<Person(family, process_given_name(given))>>
           ELSE <<Person(parts[1],
                         process_given_name(Join(SubSeq(parts, 2, n), <<SP>>)))>>
       ELSE <<Person(parts[1], <<>>)>>

RECURSIVE PubmedAuthors(_)
PubmedAuthors(authors) ==
    IF authors = <<>> THEN <<>>
    ELSE (IF Head(authors) = <<>> THEN <<>> ELSE PubmedAuthor(Head(authors)))
         \o PubmedAuthors(Tail(authors))

\* while family_idx > 0 and parts[family_idx - 1][0].islower(): family_idx -= 1
\* family_idx is the 1-based index of the first family part; 0 stands for the
\* IndexError that parts[family_idx - 1][0] raises on an empty part
RECURSIVE FamilyIdx(_, _)
FamilyIdx(parts, family_idx) ==
    IF family_idx <= 1 THEN family_idx
    ELSE IF parts[family_idx - 1] = <<>> THEN 0
    ELSE IF IsLower(parts[family_idx - 1][1]) THEN FamilyIdx(parts, family_idx - 1)
    ELSE family_idx

\* the arxiv and biorxiv branches, one name already split on ' ':
\* [raised, entries]
RightAuthor(parts) ==
    LET n == Len(parts)
        family_idx == FamilyIdx(parts, n)
        family_parts == SubSeq(parts, family_idx, n)
        given == Join(SubSeq(parts, 1, family_idx - 1), <<SP>>)
    IN IF n >= 2 THEN
           IF family_idx = 0 THEN [raised |-> TRUE, entries |-> <<>>]
           ELSE IF Len(family_parts) > 1 /\ IsLower(family_parts[1][1])
           THEN [raised |-> FALSE,
                 entries |-> <<PersonNdp(family_parts[Len(family_parts)],
                                         process_given_name(given),
                                         Join(SubSeq(family_parts, 1,
                                                     Len(family_parts) - 1), <<SP>>))>>]
           ELSE [raised |-> FALSE,
                 entries |-> <<Person(Join(family_parts, <<SP>>),
                                      process_given_name(given))>>]
       ELSE [raised |-> FALSE, entries |-> <<Person(parts[1], <<>>)>>]

\* for author in paper.authors: parts = author.name.split(' ')
RECURSIVE ArxivAuthors(_)
ArxivAuthors(names) ==
    IF names = <<>> THEN [raised |-> FALSE, entries |-> <<>>]
    ELSE LET one == RightAuthor(SplitOn(Head(names), SP))
             rest == ArxivAuthors(Tail(names))
         IN IF one.raised \/ rest.raised THEN [raised |-> TRUE, entries |-> <<>>]
            ELSE [raised |-> FALSE, entries |-> one.entries \o rest.entries]

\* for auth in item['authors'].split(';'): parts = auth.strip().split(' ')
RECURSIVE BiorxivSegments(_)
BiorxivSegments(segs) ==
    IF segs = <<>> THEN [raised |-> FALSE, entries |-> <<>>]
    ELSE LET one == RightAuthor(SplitOn(Strip(Head(segs)), SP))
             rest == BiorxivSegments(Tail(segs))
         IN IF one.raised \/ rest.raised THEN [raised |-> TRUE, entries |-> <<>>]
            ELSE [raised |-> FALSE, entries |-> one.entries \o rest.entries]

BiorxivAuthors(authors) == BiorxivSegments(SplitOn(authors, ";"))

\* What the upstream source answers: ok is FALSE when the client raises or
\* bioRxiv reports a status other than 'ok'; authors is article.authors
\* (pubmed), the names of paper.authors (arxiv), or item['authors'] (biorxiv).
\* The result: found is FALSE for the None the function returns on failure.
NoData == [found |-> FALSE, id |-> <<>>, author |-> <<>>]

fetch_paper_data_csl(source_type, paper_id, upstream) ==
    IF ~upstream.ok THEN NoData
    ELSE IF source_type = "pubmed"
    THEN [found |-> TRUE, id |-> paper_id, author |-> PubmedAuthors(upstream.authors)]
    ELSE LET parsed == IF source_type = "arxiv"
                       THEN ArxivAuthors(upstream.authors)
                       ELSE BiorxivAuthors(upstream.authors)
         IN IF parsed.raised THEN NoData
            ELSE [found |-> TRUE, id |-> paper_id, author |-> parsed.entries]

(***************************************************************************)
(* process_csl: "et al." handling (lines 391-520)                          *)
(***************************************************************************)
\* s[i], or the empty string (in no character class) outside the string
At(s, i) == IF i \in 1..Len(s) THEN s[i] ELSE ""

\* the index of the first character at or after i that is not a digit
RECURSIVE DigitsEnd(_, _)
DigitsEnd(s, i) == IF IsDigit(At(s, i)) THEN DigitsEnd(s, i + 1) ELSE i

\* the index of the first character at or after i that is not whitespace
RECURSIVE SpacesEnd(_, _)
SpacesEnd(s, i) == IF IsSpace(At(s, i)) THEN SpacesEnd(s, i + 1) ELSE i

EtAl == <<"e", "t", SP, "a", "l">>
ItalicEtAl == <<IO>> \o EtAl \o <<".", IC>>

\* 'et al' in result_html.lower()
HasEtAl(html) == Contains(Lower(html), EtAl)

\* \bet al at i, ignoring case: 'e' starts a word
EtAlAt(s, i) ==
    /\ MatchAt(Lower(s), EtAl, i)
    /\ ~IsWord(At(s, i - 1))

\* re.sub(r'\bet al\.', r'<i>et al.</i>', flags=re.IGNORECASE)
RECURSIVE ItalicizeDotted(_, _)
ItalicizeDotted(s, i) ==
    IF i > Len(s) THEN <<>>
    ELSE IF EtAlAt(s, i) /\ At(s, i + 5) = "."
    THEN ItalicEtAl \o ItalicizeDotted(s, i + 6)
    ELSE <<s[i]>> \o ItalicizeDotted(s, i + 1)

\* re.sub(r'\bet al\b(?!\.)', r'<i>et al.</i>', flags=re.IGNORECASE)
RECURSIVE ItalicizeBare(_, _)
ItalicizeBare(s, i) ==
    IF i > Len(s) THEN <<>>
    ELSE IF EtAlAt(s, i) /\ ~IsWord(At(s, i + 5)) /\ At(s, i + 5) # "."
    THEN ItalicEtAl \o ItalicizeBare(s, i + 5)
    ELSE <<s[i]>> \o ItalicizeBare(s, i + 1)

ItalicizeExisting(html) == ItalicizeBare(ItalicizeDotted(html, 1), 1)

\* the loop of lines 400-404
RECURSIVE DisplayedAuthorCount(_, _)
DisplayedAuthorCount(authors, html) ==
    IF authors = <<>> THEN 0
    ELSE (IF Head(authors).family # <<>> /\ Contains(html, Head(authors).family)
          THEN 1 ELSE 0) + DisplayedAuthorCount(Tail(authors), html)

\* ([A-Z]\.?\s*)+ from i, greedy: the index after the last iteration
RECURSIVE InitialRunEnd(_, _)
InitialRunEnd(s, i) ==
    IF IsUpper(At(s, i))
    THEN InitialRunEnd(s, SpacesEnd(s, IF At(s, i + 1) = "." THEN i + 2 ELSE i + 1))
    ELSE i

\* family + r',\s+([A-Z]\.?\s*)+\.?' at i: the index after the match, 0 if none
AuthorPatternEnd(s, family, i) ==
    LET c == i + Len(family)
        w == SpacesEnd(s, c + 1)
        r == InitialRunEnd(s, w)
    IN IF MatchAt(s, family, i) /\ At(s, c) = "," /\ w > c + 1 /\ r > w
       THEN (IF At(s, r) = "." THEN r + 1 ELSE r)
       ELSE 0

\* list(re.finditer(author_pattern, result_html))[-1].end(): the index after
\* the last of the non-overlapping matches found left to right, 0 if none
RECURSIVE LastAuthorMatchEnd(_, _, _, _)
LastAuthorMatchEnd(s, family, i, last) ==
    IF i > Len(s) THEN last
    ELSE LET e == AuthorPatternEnd(s, family, i)
         IN IF e > 0 THEN LastAuthorMatchEnd(s, family, e, e)
            ELSE LastAuthorMatchEnd(s, family, i + 1, last)

\* (?:\s+[A-Z]\.?)* from i, greedy
RECURSIVE MoreInitialsEnd(_, _)
MoreInitialsEnd(s, i) ==
    LET w == SpacesEnd(s, i)
    IN IF w > i /\ IsUpper(At(s, w))
       THEN MoreInitialsEnd(s, IF At(s, w + 1) = "." THEN w + 2 ELSE w + 1)
       ELSE i

\* r',\s+[A-Z]\.?(?:\s+[A-Z]\.?)*\.?' at i: the index after the match, 0 if none
InitialPatternEnd(s, i) ==
    LET w == SpacesEnd(s, i + 1)
        a == IF At(s, w + 1) = "." THEN w + 2 ELSE w + 1
        m == MoreInitialsEnd(s, a)
    IN IF At(s, i) = "," /\ w > i + 1 /\ IsUpper(At(s, w))
       THEN (IF At(s, m) = "." THEN m + 1 ELSE m)
       ELSE 0

\* re.search(initial_pattern, search_range).end(), 0 if no match
InitialSearchEnd(s) ==
    LET hits == {i \in 1..Len(s) : InitialPatternEnd(s, i) > 0}
    IN IF hits = {} THEN 0
       ELSE InitialPatternEnd(s, CHOOSE i \in hits : \A j \in hits : i <= j)

InsertedEtAl == <<SP, IO>> \o EtAl \o <<".", IC>>

\* result_html[:pos] + ' <i>et al.</i>' + result_html[pos:], pos 0-based
InsertAt(html, pos) ==
    SubSeq(html, 1, pos) \o InsertedEtAl \o SubSeq(html, pos + 1, Len(html))

\* the width of search_range
SearchRange == 100

\* lines 436-519: the elif authors_omitted branch
InsertEtAl(authors, html, displayed_author_count) ==
    LET has_last == displayed_author_count > 0
        last_family == IF has_last THEN authors[displayed_author_count].family ELSE <<>>
        last_given == IF has_last THEN authors[displayed_author_count].given ELSE <<>>
        at_end == RStrip(html) \o InsertedEtAl
    IN IF last_family # <<>> /\ last_given # <<>> THEN
           LET e == LastAuthorMatchEnd(html, last_family, 1, 0)
           IN IF e > 0 THEN InsertAt(html, e - 1)
              ELSE LET last_family_pos == RFind(html, last_family)
                   IN IF last_family_pos # 0 THEN
                          LET search_range == SubSeq(html, last_family_pos,
                                  IF last_family_pos + SearchRange - 1 < Len(html)
                                  THEN last_family_pos + SearchRange - 1
                                  ELSE Len(html))
                              ie == InitialSearchEnd(search_range)
                              period_pos == Find(html, <<".">>, last_family_pos)
                          IN IF ie > 0 THEN InsertAt(html, last_family_pos - 1 + ie - 1)
                             ELSE IF period_pos # 0 THEN InsertAt(html, period_pos)
                             ELSE at_end
                      ELSE at_end
       ELSE at_end

\* lines 391-520
EtAlStep(authors, html) ==
    LET author_count == Len(authors)
        displayed_author_count == DisplayedAuthorCount(authors, html)
        authors_omitted == author_count > displayed_author_count
    IN IF HasEtAl(html) THEN ItalicizeExisting(html)
       ELSE IF authors_omitted THEN InsertEtAl(authors, html, displayed_author_count)
       ELSE html

(***************************************************************************)
(* process_csl: numbering (lines 525-572)                                  *)
(***************************************************************************)
\* ^ under re.MULTILINE: the start of the string or just after a newline
LineStart(s, i) == i = 1 \/ At(s, i - 1) = NL

\* re.sub(r'(\d+\.)([A-Za-z])', r'\1\t\2')
RECURSIVE TabAfterBare(_, _)
TabAfterBare(s, i) ==
    IF i > Len(s) THEN <<>>
    ELSE LET d == DigitsEnd(s, i)
         IN IF d > i /\ At(s, d) = "." /\ IsLetter(At(s, d + 1))
            THEN SubSeq(s, i, d) \o <<TAB, s[d + 1]>> \o TabAfterBare(s, d + 2)
            ELSE <<s[i]>> \o TabAfterBare(s, i + 1)

\* re.sub(r'(\d+\.</div>)([A-Za-z])', r'\1\t\2')
RECURSIVE TabAfterDiv(_, _)
TabAfterDiv(s, i) ==
    IF i > Len(s) THEN <<>>
    ELSE LET d == DigitsEnd(s, i)
         IN IF d > i /\ At(s, d) = "." /\ At(s, d + 1) = ED /\ IsLetter(At(s, d + 2))
            THEN SubSeq(s, i, d + 1) \o <<TAB, s[d + 2]>> \o TabAfterDiv(s, d + 3)
            ELSE <<s[i]>> \o TabAfterDiv(s, i + 1)

\* re.sub(r'^(\d+\.)([A-Za-z])', r'\1\t\2', flags=re.MULTILINE)
RECURSIVE TabAfterLineStart(_, _)
TabAfterLineStart(s, i) ==
    IF i > Len(s) THEN <<>>
    ELSE LET d == DigitsEnd(s, i)
         IN IF LineStart(s, i) /\ d > i /\ At(s, d) = "." /\ IsLetter(At(s, d + 1))
            THEN SubSeq(s, i, d) \o <<TAB, s[d + 1]>> \o TabAfterLineStart(s, d + 2)
            ELSE <<s[i]>> \o TabAfterLineStart(s, i + 1)

InsertTabs(html) == TabAfterLineStart(TabAfterDiv(TabAfterBare(html, 1), 1), 1)

\* re.sub(r'\d+\.\t', f'{citation_number}.\t'); whole is the replacement
\* ('' in the else branch)
RECURSIVE SubNumTab(_, _, _)
SubNumTab(s, i, whole) ==
    IF i > Len(s) THEN <<>>
    ELSE LET d == DigitsEnd(s, i)
         IN IF d > i /\ At(s, d) = "." /\ At(s, d + 1) = TAB
            THEN whole \o SubNumTab(s, d + 2, whole)
            ELSE <<s[i]>> \o SubNumTab(s, i + 1, whole)

\* re.sub(r'(<div class="csl-left-margin">)\d+(\.?</div>)', rf'\g<1>{n}\g<2>')
RECURSIVE SubMargin(_, _, _)
SubMargin(s, i, num) ==
    IF i > Len(s) THEN <<>>
    ELSE LET d == DigitsEnd(s, i + 1)
             e == IF At(s, d) = "." THEN d + 1 ELSE d
         IN IF s[i] = LM /\ d > i + 1 /\ At(s, e) = ED
            THEN <<LM>> \o num \o SubSeq(s, d, e) \o SubMargin(s, e + 1, num)
            ELSE <<s[i]>> \o SubMargin(s, i + 1, num)

\* re.sub(r'^(\s*)\d+\.(\s)', rf'\g<1>{n}.\g<2>', flags=re.MULTILINE)
RECURSIVE SubLineStart(_, _, _)
SubLineStart(s, i, num) ==
    IF i > Len(s) THEN <<>>
    ELSE LET w == SpacesEnd(s, i)
             d == DigitsEnd(s, w)
         IN IF LineStart(s, i) /\ d > w /\ At(s, d) = "." /\ IsSpace(At(s, d + 1))
            THEN SubSeq(s, i, w - 1) \o num \o <<".", s[d + 1]>>
                 \o SubLineStart(s, d + 2, num)
            ELSE <<s[i]>> \o SubLineStart(s, i + 1, num)

\* re.sub(r'(>)\s*\d+\.(\s)', rf'\g<1>{n}.\g<2>')
RECURSIVE SubAfterTag(_, _, _)
SubAfterTag(s, i, num) ==
    IF i > Len(s) THEN <<>>
    ELSE LET w == SpacesEnd(s, i + 1)
             d == DigitsEnd(s, w)
         IN IF EndsGT(s[i]) /\ d > w /\ At(s, d) = "." /\ IsSpace(At(s, d + 1))
            THEN <<s[i]>> \o num \o <<".", s[d + 1]>> \o SubAfterTag(s, d + 2, num)
            ELSE <<s[i]>> \o SubAfterTag(s, i + 1, num)

\* only the first of the four patterns
RenumberTabOnly(html, n) == SubNumTab(html, 1, Str(n) \o <<".", TAB>>)

\* the if branch, lines 536-561
Renumber(html, n) ==
    LET num == Str(n)
    IN SubAfterTag(SubLineStart(SubMargin(SubNumTab(html, 1, num \o <<".", TAB>>),
                                          1, num), 1, num), 1, num)

\* the else branch, lines 562-568
DeleteMarker(html) == SubNumTab(html, 1, <<>>)

\* result_html.replace('\t', '&nbsp;&nbsp;&nbsp;&nbsp;')
RECURSIVE ReplaceTabs(_)
ReplaceTabs(s) ==
    IF s = <<>> THEN <<>>
    ELSE (IF Head(s) = TAB THEN <<NBSP, NBSP, NBSP, NBSP>> ELSE <<Head(s)>>)
         \o ReplaceTabs(Tail(s))

\* a target citation number: given is FALSE for citation_number=None
NoNumber == [given |-> FALSE, n |-> 0]
Number(n) == [given |-> TRUE, n |-> n]

\* lines 525-572
NumberingStep(html, citation_number_arg) ==
    LET tabbed == InsertTabs(html)
    IN ReplaceTabs(IF citation_number_arg.given
                   THEN Renumber(tabbed, citation_number_arg.n)
                   ELSE DeleteMarker(tabbed))

(***************************************************************************)
(* process_csl: punctuation cleanup (lines 574-578)                        *)
(***************************************************************************)
\* the index of the first character at or after i that is not a period
RECURSIVE PeriodsEnd(_, _)
PeriodsEnd(s, i) == IF At(s, i) = "." THEN PeriodsEnd(s, i + 1) ELSE i

\* re.sub(r'\.\.+', '.')
RECURSIVE CollapsePeriods(_, _)
CollapsePeriods(s, i) ==
    IF i > Len(s) THEN <<>>
    ELSE IF s[i] = "." /\ At(s, i + 1) = "."
    THEN <<".">> \o CollapsePeriods(s, PeriodsEnd(s, i))
    ELSE <<s[i]>> \o CollapsePeriods(s, i + 1)

\* re.sub(r'\.\s+\.', '.')
RECURSIVE CollapseSpacedPeriods(_, _)
CollapseSpacedPeriods(s, i) ==
    IF i > Len(s) THEN <<>>
    ELSE LET w == SpacesEnd(s, i + 1)
         IN IF s[i] = "." /\ w > i + 1 /\ At(s, w) = "."
            THEN <<".">> \o CollapseSpacedPeriods(s, w + 1)
            ELSE <<s[i]>> \o CollapseSpacedPeriods(s, i + 1)

Cleanup(html) == CollapseSpacedPeriods(CollapsePeriods(html, 1), 1)

\* lines 391-578: everything between the raw renderer output and the result
PostProcess(authors, html, citation_number_arg) ==
    Cleanup(NumberingStep(EtAlStep(authors, html), citation_number_arg))

(***************************************************************************)
(* get_csl_path (lines 38-60)                                              *)
(***************************************************************************)
\* the depth at which the interpreter stops the recursion (RecursionError)
RecursionLimit == 3

\* resp[d] is what the style repository answers to the d-th download request
\* of one call: "200", "404" (any other status) or "exc" (requests.get or the
\* write of the file raises).  The result: ok is FALSE for None, style is the
\* style whose file the path names, files is CSL_DIR afterwards, requests the
\* number of downloads tried.
RECURSIVE GetCslPath(_, _, _, _)
GetCslPath(style, files, resp, depth) ==
    IF style \in files
    THEN [ok |-> TRUE, style |-> style, files |-> files, requests |-> depth - 1]
    ELSE IF depth > RecursionLimit
    THEN [ok |-> FALSE, style |-> style, files |-> files, requests |-> depth - 1]
    ELSE IF resp[depth] = "200"
    THEN [ok |-> TRUE, style |-> style, files |-> files \cup {style},
          requests |-> depth]
    ELSE IF resp[depth] = "404"
    THEN GetCslPath("nature", files, resp, depth + 1)
    ELSE [ok |-> FALSE, style |-> style, files |-> files, requests |-> depth]

get_csl_path(style, files, resp) == GetCslPath(style, files, resp, 1)

(***************************************************************************)
(* process_csl (lines 308-593)                                             *)
(***************************************************************************)
MsgStyleLoad == "Style Load Error"
MsgNoOutput == "CSL Formatting produced no output for "
MsgFmtErr == "CSL Formatting Error for "
MsgErrno == "[Errno 2] No such file or directory: '"
DEBUG_DIR == "csl_debug_output/"

\* the five files of the trace, by their suffix
TraceWrites == {"_1_input_data.json", "_2_csl_raw_output.html",
                "_3_debug_info.json", "_4_final_html_output.html", "_error.log"}

\* os.path.join(DEBUG_DIR, f"{item_id}_{style_name}") + suffix
TracePath(item_id, style, suffix) == <<DEBUG_DIR>> \o item_id \o <<"_", style, suffix>>

\* DEBUG_DIR holds no sub-directory: a path whose name part contains '/'
\* cannot be opened for writing
HasSlash(item_id) == \E i \in DOMAIN item_id : item_id[i] = "/"

\* str(e) of the OSError of a failed open
OpenError(item_id, style, suffix) ==
    <<MsgErrno>> \o TracePath(item_id, style, suffix) \o <<"'">>

Returned(value, files) == [raised |-> FALSE, value |-> value, files |-> files]
Escaped(files) == [raised |-> TRUE, value |-> <<>>, files |-> files]

\* the except clause, lines 586-593: message is str(e)
Handler(item_id, style, message, failing, files) ==
    IF "_error.log" \in failing THEN Escaped(files)
    ELSE Returned(<<MsgFmtErr>> \o item_id \o <<":", SP>> \o message, files)

\* env.resp: the style repository's answers; env.render: what citeproc does
\* with the record, [raised, message, html]; failing: the trace files whose
\* write raises.
ProcessCslWith(csl_json_data, style, citation_number_arg, env, files, failing) ==
    LET csl_path == get_csl_path(style, files, env.resp)
        item_id == csl_json_data.id
        f == csl_path.files
        result_html == env.render.html
    IN IF ~csl_path.ok THEN Returned(<<MsgStyleLoad>>, f)
       ELSE IF "_1_input_data.json" \in failing
       THEN Handler(item_id, style,
                    OpenError(item_id, style, "_1_input_data.json"), failing, f)
       ELSE IF env.render.raised
       THEN Handler(item_id, style, env.render.message, failing, f)
       ELSE IF "_2_csl_raw_output.html" \in failing
       THEN Handler(item_id, style,
                    OpenError(item_id, style, "_2_csl_raw_output.html"), failing, f)
       ELSE IF Strip(result_html) = <<>>
       THEN IF "_3_debug_info.json" \in failing
            THEN Handler(item_id, style,
                         OpenError(item_id, style, "_3_debug_info.json"), failing, f)
            ELSE Returned(<<MsgNoOutput>> \o item_id, f)
       ELSE IF "_4_final_html_output.html" \in failing
       THEN Handler(item_id, style,
                    OpenError(item_id, style, "_4_final_html_output.html"), failing, f)
       ELSE Returned(PostProcess(csl_json_data.author, result_html,
                                 citation_number_arg), f)

\* the writes that fail: those the environment fails, and all of them when
\* the entry id puts the trace in a directory that does not exist
Failing(item_id, env) == IF HasSlash(item_id) THEN TraceWrites ELSE env.trace

process_csl(csl_json_data, style, citation_number_arg, env, files) ==
    ProcessCslWith(csl_json_data, style, citation_number_arg, env, files,
                   Failing(csl_json_data.id, env))

(***************************************************************************)
(* generate (lines 600-682)                                                *)
(***************************************************************************)
SpanOpen == "<span style='color:red'>"
SpanClose == "</span>"
MsgNotFound == "Not Found or Fetch Error: "

\* line.isdigit()
IsDigits(line) == line # <<>> /\ \A i \in DOMAIN line : IsDigit(line[i])

BiorxivMark == <<"1", "0", ".", "1", "1", "0", "1">>

\* the length below which a dotted line is an arXiv id
ArxivMaxLen == 15

\* lines 614-621
SourceOf(line) ==
    IF IsDigits(line) THEN "pubmed"
    ELSE IF Contains(line, BiorxivMark) THEN "biorxiv"
    ELSE IF Contains(line, <<".">>) /\ Len(line) < ArxivMaxLen THEN "arxiv"
    ELSE "pubmed"

\* lines 625-643: the entry appended for one non-blank line
Entry(csl_data, line) ==
    IF csl_data.found
    THEN [csl_data |-> csl_data,
          sort_key |-> Lower(IF Len(csl_data.author) > 0
                             THEN csl_data.author[1].family ELSE <<>>),
          original_id |-> line,
          error |-> FALSE]
    ELSE [csl_data |-> NoData, sort_key |-> <<>>, original_id |-> line,
          error |-> TRUE]

\* SelectSeq with the test written out
RECURSIVE Valid(_)
Valid(data) ==
    IF data = <<>> THEN <<>>
    ELSE (IF Head(data).error THEN <<>> ELSE <<Head(data)>>) \o Valid(Tail(data))

RECURSIVE Errors(_)
Errors(data) ==
    IF data = <<>> THEN <<>>
    ELSE (IF Head(data).error THEN <<Head(data)>> ELSE <<>>) \o Errors(Tail(data))

\* list.sort(key=...) is stable: x goes after every element whose key is not
\* greater than its own
RECURSIVE InsertByKey(_, _)
InsertByKey(sorted, x) ==
    IF sorted = <<>> THEN <<x>>
    ELSE IF StrLess(x.sort_key, Head(sorted).sort_key) THEN <<x>> \o sorted
    ELSE <<Head(sorted)>> \o InsertByKey(Tail(sorted), x)

RECURSIVE SortByKey(_, _)
SortByKey(data, sorted) ==
    IF data = <<>> THEN sorted
    ELSE SortByKey(Tail(data), InsertByKey(sorted, Head(data)))

\* every entry sorted by key, the failed ones (key '') among them
ReorderAll(data, alphabetical) ==
    IF alphabetical THEN SortByKey(data, <<>>) ELSE data

\* lines 646-651
Reorder(data, alphabetical) ==
    IF alphabetical THEN SortByKey(Valid(data), <<>>) \o Errors(data) ELSE data

\* lines 660-666
ErrorMessage(alphabetical, n, original_id) ==
    IF alphabetical
    THEN <<SpanOpen, MsgNotFound>> \o original_id \o <<SpanClose>>
    ELSE Str(n) \o <<".", SP, SpanOpen, MsgNotFound>> \o original_id \o <<SpanClose>>

\* lines 670-675: the citation_number argument of the process_csl call
TargetNumber(alphabetical, n) == IF alphabetical THEN NoNumber ELSE Number(n)

\* a failed entry that leaves the counter alone
KeepNumber(alphabetical, n) == n

\* lines 660-666: the counter after a failed entry
NumberAfterFailure(alphabetical, n) == IF alphabetical THEN n ELSE n + 1

\* lines 670-676: the counter after a rendered entry
NumberAfterCitation(alphabetical, n) == IF alphabetical THEN n ELSE n + 1

(***************************************************************************)
(* The request: inputs and the environment's answers                       *)
(***************************************************************************)
\* the largest number of lines of input_text
MaxLines == 2

RECURSIVE SeqsUpTo(_, _)
SeqsUpTo(S, n) ==
    IF n = 0 THEN {<<>>}
    ELSE LET shorter == SeqsUpTo(S, n - 1)
         IN shorter \cup {Append(q, x) : q \in {r \in shorter : Len(r) = n - 1}, x \in S}

\* a whitespace-only line, a PubMed id, a bioRxiv DOI, an arXiv id
Lines == { <<SP>>,
           <<"7">>,
           <<"1", "0", ".", "1", "1", "0", "1", "/", "7">>,
           <<SP, "2", ".", "1">> }

Styles == {"nature", "apa"}

Failed == [ok |-> FALSE, authors |-> <<>>]
Answer(authors) == [ok |-> TRUE, authors |-> authors]

\* what the metadata source may answer for an id of each kind
Upstream(source) ==
    IF source = "pubmed"
    THEN {Failed, Answer(<< <<"Z", "u", SP, "W">>, <<"L", "e", "e", SP, "K">> >>)}
    ELSE IF source = "biorxiv"
    THEN {Failed, Answer(<<"J", SP, "a", "d", "a", "m", "s", ";", SP, "K", SP, "L", "e", "e">>)}
    ELSE {Failed, Answer(<< <<"K", SP, "A", "d", "a", "m", "s">> >>), Answer(<< >>)}

Rendered(html) == [raised |-> FALSE, message |-> <<>>, html |-> html]
RenderError == [raised |-> TRUE, message |-> <<"boom">>, html |-> <<>>]

AllOk == [d \in 1..RecursionLimit |-> "200"]
NotFound == [d \in 1..RecursionLimit |-> "404"]
Unreachable == [d \in 1..RecursionLimit |-> "exc"]

\* what the style repository, the renderer and the trace directory may do
\* during one process_csl call
Envs ==
    ([resp : {AllOk},
      render : {Rendered(<<"1", ".", "Z", "u", ",", SP, "W", ".", SP, "T", ".">>),
                Rendered(<<SP>>), RenderError},
      trace : {{}, {"_1_input_data.json"}, {"_4_final_html_output.html"},
               TraceWrites}])
    \cup
    ([resp : {NotFound, Unreachable},
      render : {Rendered(<<"1", ".", "Z", "u", ",", SP, "W", ".", SP, "T", ".">>)},
      trace : {{}}])

\* how a call ended, next to how it ends when every trace write succeeds;
\* render_raised: the style was loaded and the renderer raised render_message
NoCall == [called |-> FALSE, id |-> <<>>, render_raised |-> FALSE,
           render_message |-> <<>>, raised |-> FALSE, value |-> <<>>,
           quiet_raised |-> FALSE, quiet_value |-> <<>>]

GenInit ==
    /\ input_lines \in SeqsUpTo(Lines, MaxLines)
    /\ sort_alphabetically \in BOOLEAN
    /\ style_name \in Styles
    /\ pc = "fetch"
    /\ line_idx = 1
    /\ citation_data = <<>>
    /\ item_idx = 1
    /\ citation_number = 1
    /\ results = <<>>
    /\ unsorted = <<>>
    /\ calls = <<>>
    /\ last_call = NoCall
    /\ csl_files = {}

FnIdle == arg = <<>> /\ ret = <<>> /\ done = FALSE

Init == GenInit /\ FnIdle

\* one iteration of the loop of lines 609-643
FetchLine ==
    /\ pc = "fetch"
    /\ line_idx <= Len(input_lines)
    /\ LET line == Strip(input_lines[line_idx])
       IN IF line = <<>>
          THEN UNCHANGED <<citation_data, unsorted>>
          ELSE \E upstream \in Upstream(SourceOf(line)) :
                  /\ citation_data' = Append(citation_data,
                        Entry(fetch_paper_data_csl(SourceOf(line), line, upstream), line))
                  /\ unsorted' = citation_data'
    /\ line_idx' = line_idx + 1
    /\ UNCHANGED <<input_lines, sort_alphabetically, style_name, pc, item_idx,
                   citation_number, results, calls, last_call, csl_files, fnVars>>

\* lines 646-655
SortEntries ==
    /\ pc = "fetch"
    /\ line_idx > Len(input_lines)
    /\ citation_data' = Reorder(citation_data, sort_alphabetically)
    /\ pc' = "render"
    /\ UNCHANGED <<input_lines, sort_alphabetically, style_name, line_idx, item_idx,
                   citation_number, results, unsorted, calls, last_call, csl_files, fnVars>>

\* one iteration of the loop of lines 657-678 on a failed entry
RenderFailure ==
    /\ pc = "render"
    /\ item_idx <= Len(citation_data)
    /\ citation_data[item_idx].error
    /\ results' = Append(results,
          ErrorMessage(sort_alphabetically, citation_number,
                       citation_data[item_idx].original_id))
    /\ citation_number' = NumberAfterFailure(sort_alphabetically, citation_number)
    /\ item_idx' = item_idx + 1
    /\ UNCHANGED <<input_lines, sort_alphabetically, style_name, pc, line_idx,
                   citation_data, unsorted, calls, last_call, csl_files, fnVars>>

\* one iteration of the loop of lines 657-678 on a fetched entry; an
\* exception process_csl lets escape ends the request
RenderCitation ==
    /\ pc = "render"
    /\ item_idx <= Len(citation_data)
    /\ ~citation_data[item_idx].error
    /\ \E env \in Envs :
          LET item == citation_data[item_idx]
              target == TargetNumber(sort_alphabetically, citation_number)
          IN \E r \in {process_csl(item.csl_data, style_name, target, env, csl_files)} :
             \E quiet \in {IF Failing(item.csl_data.id, env) = {} THEN r
                           ELSE ProcessCslWith(item.csl_data, style_name, target,
                                               env, csl_files, {})} :
                /\ calls' = Append(calls, [item |-> item_idx, citation_number |-> target])
                /\ last_call' = [called |-> TRUE, id |-> item.csl_data.id,
                                 render_raised |->
                                    /\ get_csl_path(style_name, csl_files, env.resp).ok
                                    /\ env.render.raised,
                                 render_message |-> env.render.message,
                                 raised |-> r.raised, value |-> r.value,
                                 quiet_raised |-> quiet.raised,
                                 quiet_value |-> quiet.value]
                /\ csl_files' = r.files
                /\ IF r.raised
                   THEN /\ pc' = "crashed"
                        /\ UNCHANGED <<results, citation_number, item_idx>>
                   ELSE /\ results' = Append(results, r.value)
                        /\ citation_number' =
                              NumberAfterCitation(sort_alphabetically, citation_number)
                        /\ item_idx' = item_idx + 1
                        /\ pc' = pc
    /\ UNCHANGED <<input_lines, sort_alphabetically, style_name, line_idx,
                   citation_data, unsorted, fnVars>>

\* line 682
Respond ==
    /\ pc = "render"
    /\ item_idx > Len(citation_data)
    /\ pc' = "done"
    /\ UNCHANGED <<input_lines, sort_alphabetically, style_name, line_idx,
                   citation_data, item_idx, citation_number, results, unsorted,
                   calls, last_call, csl_files, fnVars>>

Next == FetchLine \/ SortEntries \/ RenderFailure \/ RenderCitation \/ Respond

Spec == Init /\ [][Next]_vars

(***************************************************************************)
(* Properties of generate, under Spec                                      *)
(***************************************************************************)
\* the lines that are not blank after strip(), in input order
RECURSIVE NonBlank(_)
NonBlank(lines) ==
    IF lines = <<>> THEN <<>>
    ELSE (IF Strip(Head(lines)) = <<>> THEN <<>> ELSE <<Strip(Head(lines))>>)
         \o NonBlank(Tail(lines))

IsPrefix(p, s) == Len(p) <= Len(s) /\ SubSeq(s, 1, Len(p)) = p

Rendering == pc \in {"render", "done", "crashed"}

\* C1: failure isolation.  No exception escapes process_csl, so the request
\* never ends in an unhandled error; a request that has answered holds exactly
\* one fragment per non-blank input line; and a call that ended in the
\* handler returned 'CSL Formatting Error for <id>: <message>'.
FailureIsolation ==
    /\ pc # "crashed"
    /\ ~last_call.raised
    /\ pc = "done" => Len(results) = Len(NonBlank(input_lines))
    /\ last_call.render_raised =>
          last_call.value = <<MsgFmtErr>> \o last_call.id \o <<":", SP>>
                            \o last_call.render_message

\* C2: trace independence.  What a process_csl call gives the user is what
\* the same call (same record, style, target number, style repository and
\* renderer behaviour) gives when every trace write succeeds.
TraceIndependence ==
    last_call.called =>
        /\ last_call.raised = last_call.quiet_raised
        /\ last_call.value = last_call.quiet_value

Perms(n) == {p \in [1..n -> 1..n] : \A i, j \in 1..n : i # j => p[i] # p[j]}

\* the sort key of a successful entry is the lowercase family name of the
\* record's first author, empty without authors
KeysAreFirstFamilies ==
    \A i \in 1..Len(citation_data) :
        ~citation_data[i].error =>
            citation_data[i].sort_key =
                Lower(IF citation_data[i].csl_data.author = <<>> THEN <<>>
                      ELSE citation_data[i].csl_data.author[1].family)

\* C3: alphabetical mode.  After the sort the entry list is a permutation of
\* the entries in input order in which the successful entries come first, in
\* non-decreasing order of sort key, equal keys in input order, and every
\* failed entry comes after every successful one, the failed ones in input
\* order; the sort key is the lowercase family name of the first author.
AlphabeticalOrder ==
    (Rendering /\ sort_alphabetically) =>
        LET n == Len(citation_data)
        IN /\ n = Len(unsorted)
           /\ KeysAreFirstFamilies
           /\ \E p \in Perms(n) :
                 /\ \A i \in 1..n : citation_data[i] = unsorted[p[i]]
                 /\ \A i, j \in 1..n :
                       i < j =>
                          /\ citation_data[i].error => citation_data[j].error
                          /\ (~citation_data[i].error /\ ~citation_data[j].error) =>
                                ~StrLess(citation_data[j].sort_key,
                                         citation_data[i].sort_key)
                          /\ (citation_data[i].error = citation_data[j].error
                              /\ citation_data[i].sort_key = citation_data[j].sort_key)
                                => p[i] < p[j]

\* C3 witness: the sort moved a successful entry in front of a failed one
AlphabeticalReordered ==
    /\ pc = "done"
    /\ sort_alphabetically
    /\ Len(unsorted) = 2
    /\ unsorted[1].error
    /\ ~unsorted[2].error
    /\ citation_data = <<unsorted[2], unsorted[1]>>

\* C4: numbering.  In sequential mode the output order is the input order of
\* the non-blank lines, the counter is one more than the number of fragments
\* emitted, the failed entry at position k starts with 'k.' and the
\* process_csl call for the entry at position k has target number k.  In
\* alphabetical mode no call has a target number and no failure starts with
\* a number.
SequentialNumbering ==
    /\ ~sort_alphabetically =>
          /\ citation_number = 1 + Len(results)
          /\ Rendering => [i \in 1..Len(citation_data) |-> citation_data[i].original_id]
                           = NonBlank(input_lines)
          /\ \A k \in 1..Len(results) :
                citation_data[k].error => IsPrefix(Str(k) \o <<".", SP>>, results[k])
          /\ \A c \in 1..Len(calls) : calls[c].citation_number = Number(calls[c].item)
          /\ \A k \in 1..Len(results) :
                ~citation_data[k].error => \E c \in 1..Len(calls) : calls[c].item = k
    /\ sort_alphabetically =>
          /\ \A c \in 1..Len(calls) : calls[c].citation_number = NoNumber
          /\ \A k \in 1..Len(results) :
                citation_data[k].error => results[k][1] = SpanOpen

\* C4 witness: a sequential request answered with a failed entry numbered 1
\* and a rendered entry numbered 2
SequentialMixed ==
    /\ pc = "done"
    /\ ~sort_alphabetically
    /\ Len(results) = 2
    /\ citation_data[1].error
    /\ ~citation_data[2].error
    /\ calls = <<[item |-> 2, citation_number |-> Number(2)]>>

(***************************************************************************)
(* process_csl on its own: SpecProcess                                     *)
(***************************************************************************)
\* the largest numeral the renderer emits and the largest target number
MaxNumeral == 10
MaxTarget == 10

GenIdle ==
    /\ input_lines = <<>>
    /\ sort_alphabetically = FALSE
    /\ style_name = "nature"
    /\ pc = "idle"
    /\ line_idx = 1
    /\ citation_data = <<>>
    /\ item_idx = 1
    /\ citation_number = 1
    /\ results = <<>>
    /\ unsorted = <<>>
    /\ calls = <<>>
    /\ last_call = NoCall
    /\ csl_files = {}

Zu == Person(<<"Z", "u">>, <<"W", ".">>)
Lee == Person(<<"L", "e", "e">>, <<"K", ".">>)
Kim == Person(<<"K", "i", "m">>, <<"J", ".">>)

AuthorLists == {<<>>, <<Zu>>, <<Zu, Lee>>, <<Zu, Lee, Kim>>}

\* the shapes of the renderer's sequence marker: none, 'N.' glued to the
\* text, 'N.' in the left-margin element, 'N.' and a space
Shapes == {"none", "bare", "margin", "spaced"}

Marker(shape, numeral) ==
    IF shape = "bare" THEN numeral \o <<".">>
    ELSE IF shape = "margin" THEN <<LM>> \o numeral \o <<".", ED>>
    ELSE IF shape = "spaced" THEN numeral \o <<".", SP>>
    ELSE <<>>

\* the marker at the start of the entry or at the start of its second line
Prefixes == {<<>>, <<NL>>}

\* the text after the marker, as the renderer may emit it; every one starts
\* with a letter
Bodies == { <<"Z", "u", ",", SP, "W", ".", SP, "K", ".">>,
            <<"Z", "u", SP, "W", SP, "e", "t", SP, "a", "l", ".", SP, "T">>,
            <<"Z", "u", SP, IO, "e", "t", SP, "a", "l", ".", IC>>,
            <<"Z", "u", SP, "E", "t", SP, "A", "l", SP, "e", "t", SP, "a", "l", ".">>,
            <<"Z", "u", "n", "e", "t", SP, "a", "l", ".">>,
            <<"L", "e", "e", SP, "K", ",", SP, "Z", "u", SP, "3", ".", "x">>,
            <<"T", ".", SP, "9", ".", SP, ".", ".">>,
            <<"L", "e", "e", ",", SP, "K", ".", ",", SP, "K", "i", "m", ",", SP,
              "J", ".", SP, "T">>,
            <<"T", IC, SP, "9", ".", SP, "x">> }

Numerals == {Str(n) : n \in 0..MaxNumeral}

Targets == {NoNumber} \cup {Number(k) : k \in 1..MaxTarget}

ProcessArgs ==
    {[authors |-> a, prefix |-> p, shape |-> sh, numeral |-> nm, body |-> b,
      number |-> t] :
        a \in AuthorLists, p \in Prefixes, sh \in Shapes \ {"none"}, nm \in Numerals,
        b \in Bodies, t \in Targets}
    \cup
    {[authors |-> a, prefix |-> p, shape |-> "none", numeral |-> <<>>, body |-> b,
      number |-> t] :
        a \in AuthorLists, p \in Prefixes, b \in Bodies, t \in Targets}

\* the renderer's output for an argument
HtmlOf(a) == a.prefix \o Marker(a.shape, a.numeral) \o a.body

ProcessInit == GenIdle /\ arg \in ProcessArgs /\ ret = <<>> /\ done = FALSE

\* process_csl on the record with the style downloaded, the renderer emitting
\* HtmlOf(arg) and every trace write succeeding
ProcessCslCall ==
    /\ ~done
    /\ \E r \in {process_csl([found |-> TRUE, id |-> <<"7">>, author |-> arg.authors],
                             style_name, arg.number,
                             [resp |-> AllOk, render |-> Rendered(HtmlOf(arg)),
                              trace |-> {}],
                             csl_files)} :
          /\ ret' = r.value
          /\ csl_files' = r.files
    /\ done' = TRUE
    /\ UNCHANGED <<arg, input_lines, sort_alphabetically, style_name, pc, line_idx,
                   citation_data, item_idx, citation_number, results, unsorted,
                   calls, last_call>>

ProcessNext == ProcessCslCall

SpecProcess == ProcessInit /\ [][ProcessNext]_vars

(***************************************************************************)
(* Properties of process_csl, under SpecProcess                            *)
(***************************************************************************)
FourSpaces == <<NBSP, NBSP, NBSP, NBSP>>

\* the marker as the output shows it, with numeral num
ShownMarker(shape, num) ==
    IF shape = "bare" THEN num \o <<".">> \o FourSpaces
    ELSE IF shape = "margin" THEN <<LM>> \o num \o <<".", ED>> \o FourSpaces
    ELSE num \o <<".", SP>>

\* C5: renumbering.  When a target number k is supplied and the renderer's
\* entry carries a sequence marker 'N.' in one of the recognised shapes, the
\* marker of the output shows the numeral k, whatever N was.
Renumbered ==
    (done /\ arg.number.given /\ arg.shape # "none") =>
        IsPrefix(arg.prefix \o ShownMarker(arg.shape, Str(arg.number.n)), ret)

\* C5 witness: a two-digit numeral in the left-margin element replaced by a
\* one-digit target number
RenumberedMargin ==
    /\ done
    /\ arg.shape = "margin"
    /\ arg.numeral = <<"1", "0">>
    /\ arg.number = Number(3)
    /\ IsPrefix(arg.prefix \o <<LM, "3", ".", ED>>, ret)

\* a numeral and a period at position i
NumeralMarkerAt(s, i) == IsDigit(At(s, i)) /\ At(s, DigitsEnd(s, i)) = "."

\* C6: marker removal.  When no target number is supplied and the renderer's
\* entry carries a sequence marker in one of the recognised shapes, the
\* output carries no numeral marker where the entry starts.
MarkerRemoved ==
    (done /\ ~arg.number.given /\ arg.shape # "none") =>
        LET at == Len(arg.prefix) + 1
        IN /\ ~NumeralMarkerAt(ret, at)
           /\ ~(At(ret, at) = LM /\ NumeralMarkerAt(ret, at + 1))

\* the number of occurrences of pat in s
Occurrences(s, pat) == Cardinality({i \in 1..Len(s) : MatchAt(s, pat, i)})

\* fewer record authors have their family name in the rendered HTML than
\* the record has authors
Truncated(authors, html) ==
    Cardinality({i \in DOMAIN authors :
                    authors[i].family # <<>> /\ Contains(html, authors[i].family)})
        < Len(authors)

\* C7: "et al." uniqueness.  When the renderer truncated the author list the
\* output holds exactly one '<i>et al.</i>', not nested in another italic
\* element.
EtAlOnce ==
    (done /\ Truncated(arg.authors, HtmlOf(arg))) =>
        /\ Occurrences(ret, ItalicEtAl) = 1
        /\ ~Contains(ret, <<IO, IO>>)

(***************************************************************************)
(* The punctuation cleanup on its own: SpecCleanup                         *)
(***************************************************************************)
\* the longest string cleaned
MaxCleanupLen == 5

CleanupChars == {".", SP, "a"}

CleanupInit ==
    GenIdle /\ arg \in SeqsUpTo(CleanupChars, MaxCleanupLen) /\ ret = <<>> /\ done = FALSE

\* lines 574-578
CleanupCall ==
    /\ ~done
    /\ ret' = Cleanup(arg)
    /\ done' = TRUE
    /\ UNCHANGED <<arg, genVars>>

CleanupNext == CleanupCall

SpecCleanup == CleanupInit /\ [][CleanupNext]_vars

\* C8: the cleanup is idempotent: cleaning a cleaned string changes nothing.
CleanupIdempotent == done => Cleanup(ret) = ret

(***************************************************************************)
(* process_given_name on its own: SpecGiven                                *)
(***************************************************************************)
\* the largest number of space-separated tokens of a given name
MaxTokens == 3

GivenTokens == { <<"v", "o", "n">>, <<"B", "a">>, <<"C", "S">>, <<"A">>, <<"J", ".">> }

BartheldCS == <<"B", "a", "r", "t", "h", "e", "l", "d", SP, "C", "S">>
VonBartheldCS == <<"v", "o", "n", SP>> \o BartheldCS
AV == <<"A", "V">>
JohnPaulGP == <<"J", "o", "h", "n", SP, "P", "a", "u", "l", SP, "G", "P">>

GivenNames ==
    {Join(q, <<SP>>) : q \in SeqsUpTo(GivenTokens, MaxTokens)}
    \cup {BartheldCS, VonBartheldCS, AV, JohnPaulGP}

GivenInit == GenIdle /\ arg \in GivenNames /\ ret = <<>> /\ done = FALSE

\* lines 63-109
GivenNameCall ==
    /\ ~done
    /\ ret' = process_given_name(arg)
    /\ done' = TRUE
    /\ UNCHANGED <<arg, genVars>>

GivenNext == GivenNameCall

SpecGiven == GivenInit /\ [][GivenNext]_vars

\* the rules as the specification words them: fired records that the
\* initials rule has fired, with or without a comma
RuleStep(st, token) ==
    IF IsLower(token[1]) THEN [st EXCEPT !.out = Append(@, token)]
    ELSE IF IsUpperAlpha(token) THEN
        LET n == Len(st.out)
            comma == ~st.fired /\ n > 0
        IN [out |-> Append(IF comma THEN [st.out EXCEPT ![n] = @ \o <<",">>]
                           ELSE st.out,
                           Initials(token)),
            fired |-> TRUE]
    ELSE [st EXCEPT !.out = Append(@, token)]

RECURSIVE RuleLoop(_, _)
RuleLoop(st, tokens) ==
    IF tokens = <<>> THEN st
    ELSE RuleLoop(RuleStep(st, Head(tokens)), Tail(tokens))

FormatByRules(given) ==
    Join(RuleLoop([out |-> <<>>, fired |-> FALSE], SplitWs(given)).out, <<SP>>)

\* C9: process_given_name follows the per-token rules: the comma is added
\* only at the first firing of the initials rule, and only when a token
\* precedes it; the four examples come out as stated.
GivenNameRules ==
    done =>
        /\ ret = FormatByRules(arg)
        /\ arg = BartheldCS => ret = <<"B", "a", "r", "t", "h", "e", "l", "d", ",",
                                       SP, "C", ".", SP, "S", ".">>
        /\ arg = VonBartheldCS => ret = <<"v", "o", "n", SP, "B", "a", "r", "t", "h",
                                          "e", "l", "d", ",", SP, "C", ".", SP, "S", ".">>
        /\ arg = AV => ret = <<"A", ".", SP, "V", ".">>
        /\ arg = JohnPaulGP => ret = <<"J", "o", "h", "n", SP, "P", "a", "u", "l", ",",
                                       SP, "G", ".", SP, "P", ".">>

(***************************************************************************)
(* The author loops of fetch_paper_data_csl on their own: SpecAuthors      *)
(***************************************************************************)
\* the largest number of names the source lists
MaxAuthors == 2

\* names as the sources give them: empty, blank, one token, two tokens, two
\* tokens two spaces apart, a particle
SourceNames == { <<>>, <<SP>>, <<"L", "e", "e">>, <<"J", SP, "L", "e", "e">>,
                 <<"J", SP, SP, "L", "e", "e">>,
                 <<"v", "o", "n", SP, "L", "e", "e", SP, "J">> }

AuthorArgs ==
    {[source |-> src, list |-> q, text |-> <<>>] :
        src \in {"pubmed", "arxiv"}, q \in SeqsUpTo(SourceNames, MaxAuthors)}
    \cup
    {[source |-> "biorxiv", list |-> <<>>, text |-> Join(q, <<";">>)] :
        q \in SeqsUpTo(SourceNames, MaxAuthors)}

\* what the source answers: a list of names, or bioRxiv's one string
Authors(a) == IF a.source = "biorxiv" THEN a.text ELSE a.list

AuthorsInit == GenIdle /\ arg \in AuthorArgs /\ ret = NoData /\ done = FALSE

\* lines 112-301 with the source answering the authors of arg
FetchCall ==
    /\ ~done
    /\ ret' = fetch_paper_data_csl(arg.source, <<"7">>, Answer(Authors(arg)))
    /\ done' = TRUE
    /\ UNCHANGED <<arg, genVars>>

AuthorsNext == FetchCall

SpecAuthors == AuthorsInit /\ [][AuthorsNext]_vars

\* the number of names that are not empty or blank
RECURSIVE NonEmptyNames(_)
NonEmptyNames(names) ==
    IF names = <<>> THEN 0
    ELSE (IF Strip(Head(names)) = <<>> THEN 0 ELSE 1) + NonEmptyNames(Tail(names))

NonEmptyGroups(a) ==
    IF a.source = "biorxiv" THEN NonEmptyNames(SplitOn(a.text, ";"))
    ELSE NonEmptyNames(a.list)

\* C10: author-count round trip.  The record is built and holds as many
\* authors as the source has non-empty name groups; empty or blank segments
\* give no author and do not make the record fail.
AuthorCountRoundTrip ==
    done => (ret.found /\ Len(ret.author) = NonEmptyGroups(arg))

(***************************************************************************)
(* The arXiv and bioRxiv name parsing, one name at a time: SpecNames       *)
(***************************************************************************)
\* the largest number of space-separated parts of a name
MaxNameParts == 3

\* an initial, a particle, a part that starts lowercase without being
\* lowercase throughout, a family name, and the empty part that a repeated,
\* leading or trailing space leaves in name.split(' ')
NameParts == { <<"J">>, <<"d", "e">>, <<"d", "E">>, <<"L", "e", "e">>, <<>> }

NameArgs ==
    {[source |-> "arxiv", list |-> <<Join(q, <<SP>>)>>, text |-> <<>>] :
        q \in SeqsUpTo(NameParts, MaxNameParts) \ {<<>>}}
    \cup
    {[source |-> "biorxiv", list |-> <<>>, text |-> Join(q, <<SP>>)] :
        q \in SeqsUpTo(NameParts, MaxNameParts) \ {<<>>}}

NamesInit == GenIdle /\ arg \in NameArgs /\ ret = NoData /\ done = FALSE

SpecNames == NamesInit /\ [][AuthorsNext]_vars

\* the tokens of the one name of a: split(' ') of the name, which the
\* bioRxiv branch strips first
TokensOf(a) ==
    IF a.source = "biorxiv" THEN SplitOn(Strip(a.text), SP)
    ELSE SplitOn(a.list[1], SP)

\* the rule as the specification words it
AllLowercase(token) ==
    token # <<>> /\ \A i \in 1..Len(token) : IsLower(token[i])

RECURSIVE SpanStart(_, _)
SpanStart(tokens, start) ==
    IF start > 1 /\ AllLowercase(tokens[start - 1])
    THEN SpanStart(tokens, start - 1)
    ELSE start

NameByRule(tokens) ==
    LET n == Len(tokens)
        start == SpanStart(tokens, n)
        span == SubSeq(tokens, start, n)
        given == process_given_name(Join(SubSeq(tokens, 1, start - 1), <<SP>>))
    IN IF n = 1 THEN Person(tokens[1], <<>>)
       ELSE IF Len(span) > 1 /\ span[1] # <<>> /\ IsLower(span[1][1])
       THEN PersonNdp(span[Len(span)], given,
                      Join(SubSeq(span, 1, Len(span) - 1), <<SP>>))
       ELSE Person(Join(span, <<SP>>), given)

\* C11: arXiv and bioRxiv name parsing.  The family span starts at the last
\* token and grows leftward exactly while the token before it is
\* all-lowercase; the tokens left of it are the given name, formatted; a span
\* of several tokens that starts lowercase gives the last token as family and
\* the rest as particle, otherwise the whole span is the family; a one-token
\* name is a family with an empty given name.
NameParsing ==
    done => (ret.found /\ ret.author = <<NameByRule(TokensOf(arg))>>)

(***************************************************************************)
(* get_csl_path on its own: SpecStyle                                      *)
(***************************************************************************)
\* what the style repository can answer to one download request
Answers == {"200", "404", "exc"}

StyleArgs ==
    [style : Styles, files : SUBSET Styles, resp : [1..RecursionLimit -> Answers]]

StyleInit ==
    GenIdle /\ arg \in StyleArgs /\ done = FALSE
    /\ ret = [ok |-> FALSE, style |-> "", files |-> {}, requests |-> 0]

\* lines 38-60
GetCslPathCall ==
    /\ ~done
    /\ ret' = get_csl_path(arg.style, arg.files, arg.resp)
    /\ done' = TRUE
    /\ UNCHANGED <<arg, genVars>>

StyleNext == GetCslPathCall

SpecStyle == StyleInit /\ [][StyleNext]_vars

\* the call fell back to the default style and had to download it
FellBack(a) ==
    a.style \notin a.files /\ a.resp[1] = "404" /\ "nature" \notin a.files

\* C12: style resolution.  A call makes at most two download requests (one
\* fallback to the default style), and when the download of the default
\* style in the fallback fails it returns no path without a further request.
OneFallback ==
    done =>
        /\ ret.requests <= 2
        /\ (FellBack(arg) /\ arg.resp[2] # "200") => (~ret.ok /\ ret.requests = 2)

(***************************************************************************)
(* The anchor of the inserted "et al." (SpecProcess)                       *)
(***************************************************************************)
\* the record authors whose family name occurs in the rendered HTML
Displayed(authors, html) ==
    {i \in DOMAIN authors :
        authors[i].family # <<>> /\ Contains(html, authors[i].family)}

\* the last of them in record order
LastDisplayed(authors, html) ==
    CHOOSE i \in Displayed(authors, html) :
        \A j \in Displayed(authors, html) : j <= i

\* ' <i>et al.</i>' is inserted: no 'et al' in the rendered HTML, truncation
\* detected, at least one author displayed
Inserting(a) ==
    /\ ~HasEtAl(HtmlOf(a))
    /\ Displayed(a.authors, HtmlOf(a)) # {}
    /\ Truncated(a.authors, HtmlOf(a))

\* pat occurs in s and ends before position i
OccursBefore(s, pat, i) ==
    \E j \in 1..Len(s) : MatchAt(s, pat, j) /\ j + Len(pat) <= i

\* C13: the anchor of the inserted "et al.".  When ' <i>et al.</i>' is
\* inserted, the author taken as anchor is the last record author whose
\* family name occurs in the rendered HTML, and the insertion lies after an
\* occurrence of that family name.
EtAlAnchor ==
    (done /\ Inserting(arg)) =>
        LET html == HtmlOf(arg)
            last == LastDisplayed(arg.authors, html)
        IN /\ DisplayedAuthorCount(arg.authors, html) = last
           /\ \E i \in 1..Len(ret) :
                 /\ MatchAt(ret, InsertedEtAl, i)
                 /\ OccursBefore(ret, arg.authors[last].family, i + 1)

(***************************************************************************)
(* The numerals the numbering step leaves alone (SpecProcess)              *)
(***************************************************************************)
\* the numerals of s in order: its maximal runs of digits
RECURSIVE NumeralRuns(_, _)
NumeralRuns(s, i) ==
    IF i > Len(s) THEN <<>>
    ELSE IF IsDigit(s[i])
    THEN <<SubSeq(s, i, DigitsEnd(s, i) - 1)>> \o NumeralRuns(s, DigitsEnd(s, i))
    ELSE NumeralRuns(s, i + 1)

\* runs is body with one numeral in front
MarkerThen(runs, body) == Len(runs) = Len(body) + 1 /\ Tail(runs) = body

\* C14: the frame of the numbering step.  With a target number only the
\* numeral of the leading marker changes, and without one only the leading
\* marker is deleted: the numerals of the text after the marker are in the
\* output as the renderer emitted them.
NumeralsKept ==
    done =>
        LET runs == NumeralRuns(ret, 1)
            body == NumeralRuns(arg.body, 1)
        IN IF arg.shape = "none" THEN runs = body
           ELSE IF arg.number.given THEN MarkerThen(runs, body)
           ELSE runs = body \/ MarkerThen(runs, body)

====
